---- MODULE Spec2Model ----
(***************************************************************************)
(* Model of the Redis command service (RedisServiceImpl): command          *)
(* registry, lazy client initialisation under a mutex, dispatch with arity *)
(* checks, read / write pipelines and their self-deleting completion       *)
(* callbacks.                                                              *)
(*                                                                         *)
(* Strings are sequences of one-character strings, so that lower-casing,   *)
(* concatenation and formatting are computed and not assumed.              *)
(***************************************************************************)
EXTENDS Integers, Sequences, FiniteSets

\* ------------------------------------------------------------------ bounds
\* Number of inbound calls handed to Handle (each on its own thread).
NumCalls == 2
\* Largest argument vector (command name included) the transport delivers.
MaxArgs == 4

\* ----------------------------------------------------------------- strings
UpperChars == <<"A","B","C","D","E","F","G","H","I","J","K","L","M",
                "N","O","P","Q","R","S","T","U","V","W","X","Y","Z">>
LowerChars == <<"a","b","c","d","e","f","g","h","i","j","k","l","m",
                "n","o","p","q","r","s","t","u","v","w","x","y","z">>

\* The lower-case letter of every upper-case letter.
LowerOfUpper ==
    [u \in { UpperChars[k] : k \in 1..Len(UpperChars) } |->
        LowerChars[CHOOSE k \in 1..Len(UpperChars) : UpperChars[k] = u]]

ToLowerChar(ch) ==
    IF ch \in DOMAIN LowerOfUpper THEN LowerOfUpper[ch] ELSE ch

ToLowerCase(str) == [k \in 1..Len(str) |-> ToLowerChar(str[k])]

\* The names PopulateHandlers registers (the #method stringifications).
kGet      == <<"g","e","t">>
kHGet     == <<"h","g","e","t">>
kStrLen   == <<"s","t","r","l","e","n">>
kExists   == <<"e","x","i","s","t","s">>
kGetRange == <<"g","e","t","r","a","n","g","e">>
kSet      == <<"s","e","t">>
kHSet     == <<"h","s","e","t">>
kGetSet   == <<"g","e","t","s","e","t">>
kAppend   == <<"a","p","p","e","n","d">>
kDel      == <<"d","e","l">>
kSetRange == <<"s","e","t","r","a","n","g","e">>
kIncr     == <<"i","n","c","r">>
kEcho     == <<"e","c","h","o">>
kError       == <<"e","r","r","o","r">>
kGetInternal == <<"g","e","t","_","i","n","t","e","r","n","a","l">>
kSetInternal == <<"s","e","t","_","i","n","t","e","r","n","a","l">>

\* The order in which PopulateHandlers names the methods (index 0 first).
MethodOrder == <<kGet, kHGet, kStrLen, kExists, kGetRange, kSet, kHSet,
                 kGetSet, kAppend, kDel, kSetRange, kIncr, kEcho>>

\* --------------------------------------------------------- command registry
\* The static command table of the service header: name, handler, arity.
\* A positive arity N means exactly N arguments (command name included), a
\* negative arity -N means at least N.
kRedisCommandTable == <<
    [name |-> kGet,      function_ptr |-> "GetCommand",      arity |-> -2],
    [name |-> kHGet,     function_ptr |-> "HGetCommand",     arity |-> 3],
    [name |-> kStrLen,   function_ptr |-> "StrLenCommand",   arity |-> 2],
    [name |-> kExists,   function_ptr |-> "ExistsCommand",   arity |-> 2],
    [name |-> kGetRange, function_ptr |-> "GetRangeCommand", arity |-> 4],
    [name |-> kSet,      function_ptr |-> "SetCommand",      arity |-> -3],
    [name |-> kHSet,     function_ptr |-> "HSetCommand",     arity |-> 4],
    [name |-> kGetSet,   function_ptr |-> "GetSetCommand",   arity |-> 3],
    [name |-> kAppend,   function_ptr |-> "AppendCommand",   arity |-> 3],
    [name |-> kDel,      function_ptr |-> "DelCommand",      arity |-> 2],
    [name |-> kSetRange, function_ptr |-> "SetRangeCommand", arity |-> 4],
    [name |-> kIncr,     function_ptr |-> "IncrCommand",     arity |-> 2],
    [name |-> kEcho,     function_ptr |-> "EchoCommand",     arity |-> 2] >>

kMethodCount == 13

\* A pointer into the command table is the 1-based index of the entry.
nullptr == 0

\* PopulateHandlers that enters the internal keys in the command map as
\* well, under the last entry of the table.
PopulateHandlers_InternalAsCommands(table) ==
    LET sizeOk  == kMethodCount = Len(table)
        namesOk == \A idx \in 1..Len(MethodOrder) :
                      idx <= Len(table) /\ table[idx].name = MethodOrder[idx]
        countOk == kMethodCount = Len(MethodOrder)
    IN  IF sizeOk /\ namesOk /\ countOk
        THEN [ok |-> TRUE,
              command_name_to_info_map_ |->
                  { <<MethodOrder[idx], idx>> : idx \in 1..Len(MethodOrder) }
                  \cup { <<key, kMethodCount>> : key \in {kError, kGetInternal, kSetInternal} },
              metrics_ |-> { MethodOrder[idx] : idx \in 1..Len(MethodOrder) }
                             \cup {kError, kGetInternal, kSetInternal}]
        ELSE [ok |-> FALSE, command_name_to_info_map_ |-> {}, metrics_ |-> {}]

\* PopulateHandlers that registers no "error" metric.
PopulateHandlers_NoErrorMetric(table) ==
    LET sizeOk  == kMethodCount = Len(table)
        namesOk == \A idx \in 1..Len(MethodOrder) :
                      idx <= Len(table) /\ table[idx].name = MethodOrder[idx]
        countOk == kMethodCount = Len(MethodOrder)
    IN  IF sizeOk /\ namesOk /\ countOk
        THEN [ok |-> TRUE,
              command_name_to_info_map_ |->
                  { <<MethodOrder[idx], idx>> : idx \in 1..Len(MethodOrder) },
              metrics_ |-> { MethodOrder[idx] : idx \in 1..Len(MethodOrder) }
                             \cup {kGetInternal, kSetInternal}]
        ELSE [ok |-> FALSE, command_name_to_info_map_ |-> {}, metrics_ |-> {}]

\* PopulateHandlers without the CHECK_EQ on the name at each index.
PopulateHandlers_NoNameCheck(table) ==
    LET sizeOk  == kMethodCount = Len(table)
        countOk == kMethodCount = Len(MethodOrder)
    IN  IF sizeOk /\ countOk
        THEN [ok |-> TRUE,
              command_name_to_info_map_ |->
                  { <<MethodOrder[idx], idx>> : idx \in 1..Len(MethodOrder) },
              metrics_ |-> { MethodOrder[idx] : idx \in 1..Len(MethodOrder) }
                             \cup {kError, kGetInternal, kSetInternal}]
        ELSE [ok |-> FALSE, command_name_to_info_map_ |-> {}, metrics_ |-> {}]

\* PopulateHandlers: the CHECKs and the two maps it fills.  The result is
\* the state construction leaves behind; ok = FALSE is a failed CHECK.
PopulateHandlers(table) ==
    LET sizeOk  == kMethodCount = Len(table)
        namesOk == \A idx \in 1..Len(MethodOrder) :
                      idx <= Len(table) /\ table[idx].name = MethodOrder[idx]
        countOk == kMethodCount = Len(MethodOrder)
    IN  IF sizeOk /\ namesOk /\ countOk
        THEN [ok |-> TRUE,
              command_name_to_info_map_ |->
                  { <<MethodOrder[idx], idx>> : idx \in 1..Len(MethodOrder) },
              metrics_ |-> { MethodOrder[idx] : idx \in 1..Len(MethodOrder) }
                             \cup {kError, kGetInternal, kSetInternal}]
        ELSE [ok |-> FALSE, command_name_to_info_map_ |-> {}, metrics_ |-> {}]

\* FetchHandler looking the name up as it was sent.
FetchHandler_CaseSensitive(map, cmd_args) ==
    LET cmd_name == cmd_args[1]
    IN  IF \E e \in map : e[1] = cmd_name
        THEN (CHOOSE e \in map : e[1] = cmd_name)[2]
        ELSE nullptr

\* FetchHandler, past its CHECK_GE: lower-case the name and look it up.
FetchHandler(map, cmd_args) ==
    LET cmd_name == ToLowerCase(cmd_args[1])
    IN  IF \E e \in map : e[1] = cmd_name
        THEN (CHOOSE e \in map : e[1] = cmd_name)[2]
        ELSE nullptr

\* ------------------------------------------------------------------ status
OK == [code |-> "OK", msg |-> <<>>]

\* Statuses the backend client hands back (Build, OpenTable, completions).
BackendStatuses == { OK,
                     [code |-> "TimedOut", msg |-> <<"timed out">>] }

\* Statuses an injected parser returns.
ParseStatuses == { OK,
                   [code |-> "InvalidArgument", msg |-> <<"bad argument">>] }

\* Payloads the backend leaves in an operation's response slot.
BackendResponses == { <<"O","K">>, <<"v","1">> }

\* Status::ToString: the code, a separator and the message.
ToString(status) ==
    IF status.code = "OK" THEN <<"OK">>
    ELSE <<status.code, ": ">> \o status.msg

\* STATUS(RuntimeError, msg)
RuntimeError(msg) == [code |-> "RuntimeError", msg |-> msg]

\* FLAGS_redis_service_yb_client_timeout_millis
FLAGS_redis_service_yb_client_timeout_millis == 60000

\* ------------------------------------------------------------------- input
\* Command names a client sends: every registered name, some re-cased
\* spellings, names that are not commands, and the internal metrics keys.
CommandNames ==
    { MethodOrder[idx] : idx \in 1..Len(MethodOrder) }
    \cup { <<"G","E","T">>, <<"S","e","T">>, <<"E","C","H","O">> }
    \cup { <<"f","o","o">> }
    \cup { kError, kGetInternal, <<"S","E","T","_","I","N","T","E","R","N","A","L">> }

\* Values of the first argument after the command name.
ArgValues == { <<"h","e","l","l","o">>, <<"k">> }

\* The argument vectors of a given length.  The argument of a two-element
\* vector is free (the service itself reads an argument only there, in
\* EchoCommand); longer vectors carry a key and filler arguments, which
\* only the injected parsers look at.
ArgVectors(names, n) ==
    IF n = 1 THEN { <<nm>> : nm \in names }
    ELSE IF n = 2 THEN { <<nm, a>> : nm \in names, a \in ArgValues }
    ELSE { <<nm, <<"k">>>> \o [k \in 1..(n - 2) |-> <<"v">>] : nm \in names }

\* ------------------------------------------------------------------- state
VARIABLES
    calls,                      \* per inbound call: thread position and history
    yb_client_initialized_,     \* std::atomic<bool>
    yb_mutex_,                  \* 0 when free, else the call holding it
    client_,                    \* "unset" or the client name
    table_,                     \* "unset" or the table name
    command_name_to_info_map_,  \* set of <<name, table index>>
    command_table,              \* the command table the binary was built with
    metrics_,                   \* keys of the metrics map
    fatal                       \* a CHECK failed: the process is gone

vars == <<calls, yb_client_initialized_, yb_mutex_, client_, table_,
          command_name_to_info_map_, command_table, metrics_, fatal>>

Calls == 1..NumCalls

NewCall ==
    [pc |-> "idle", cmd_args |-> <<>>, cmd_info |-> nullptr,
     setup_called |-> FALSE, built |-> FALSE,
     status |-> OK, parse_status |-> OK,
     handler |-> "none", trace |-> <<>>,
     cb |-> "none", cb_metrics |-> <<>>, cb_metrics_internal |-> <<>>,
     owner |-> "transport", op_response |-> <<>>,
     errors_returned |-> 0, errors_logged |-> 0, errors_live |-> 0,
     responses |-> <<>>, samples |-> <<>>,
     id |-> 0,
     session |-> 0, session_read_only |-> FALSE,
     session_timeout_millis |-> 0, session_flush_mode |-> "none",
     session_refs |-> {}, op_refs |-> {},
     cb_status |-> OK, cb_trace |-> <<>>,
     touched |-> <<>>]

\* The state the constructor leaves when the binary carries `table`.
Construct(table) ==
    LET built == PopulateHandlers(table)
    IN  /\ calls = [i \in Calls |-> NewCall]
        /\ yb_client_initialized_ = FALSE
        /\ yb_mutex_ = 0
        /\ client_ = "unset"
        /\ table_ = "unset"
        /\ command_table = table
        /\ command_name_to_info_map_ = built.command_name_to_info_map_
        /\ metrics_ = built.metrics_
        /\ fatal = ~built.ok

Init == Construct(kRedisCommandTable)

\* --------------------------------------------------------- response builder
Response(kind, payload, status, metrics) ==
    [kind |-> kind, payload |-> payload, status |-> status, metrics |-> metrics]

\* The dispatching thread touches the call or its argument vector; the
\* accesses are kept in program order.
Touch(call, accesses) == [call EXCEPT !.touched = @ \o accesses]

\* RpcContext(call, nullptr, response, metrics)->RespondSuccess()
RespondSuccess(call, payload, metrics) ==
    [call EXCEPT !.responses = Append(@, Response("success", payload, OK, metrics)),
                 !.owner = "context"]

\* RpcContext(call, nullptr, nullptr, metrics)->RespondFailure(status)
RespondFailure(call, status, metrics) ==
    [call EXCEPT !.responses = Append(@, Response("failure", <<>>, status, metrics)),
                 !.owner = "context"]

\* RedisServiceImpl::RespondWithFailure: "%s : %s" of the error and
\* cmd_args[0], sent as a RuntimeError under the "error" metric.
RespondWithFailure(error, call) ==
    LET cmd == call.cmd_args[1]
    IN  RespondFailure(Touch(call, <<"cmd_args", "RpcContext">>),
                       RuntimeError(error \o <<" : ">> \o cmd), kError)

\* ---------------------------------------------------------------- handlers
\* What each bound handler passes to its pipeline: the metrics key and the
\* parser (GetCommand .. IncrCommand); EchoCommand has no pipeline.
HandlerBinding(function_ptr) ==
    CASE function_ptr = "GetCommand" ->
           [pipeline |-> "read", command_name |-> kGet, parse |-> "ParseGet"]
      [] function_ptr = "HGetCommand" ->
           [pipeline |-> "read", command_name |-> kHGet, parse |-> "ParseHGet"]
      [] function_ptr = "StrLenCommand" ->
           [pipeline |-> "read", command_name |-> kStrLen, parse |-> "ParseStrLen"]
      [] function_ptr = "ExistsCommand" ->
           [pipeline |-> "read", command_name |-> kExists, parse |-> "ParseExists"]
      [] function_ptr = "GetRangeCommand" ->
           [pipeline |-> "read", command_name |-> kExists, parse |-> "ParseGetRange"]
      [] function_ptr = "SetCommand" ->
           [pipeline |-> "write", command_name |-> kSet, parse |-> "ParseSet"]
      [] function_ptr = "HSetCommand" ->
           [pipeline |-> "write", command_name |-> kHSet, parse |-> "ParseHSet"]
      [] function_ptr = "GetSetCommand" ->
           [pipeline |-> "write", command_name |-> kGetSet, parse |-> "ParseGetSet"]
      [] function_ptr = "AppendCommand" ->
           [pipeline |-> "write", command_name |-> kAppend, parse |-> "ParseAppend"]
      [] function_ptr = "DelCommand" ->
           [pipeline |-> "write", command_name |-> kDel, parse |-> "ParseDel"]
      [] function_ptr = "SetRangeCommand" ->
           [pipeline |-> "write", command_name |-> kSetRange, parse |-> "ParseSetRange"]
      [] function_ptr = "IncrCommand" ->
           [pipeline |-> "write", command_name |-> kIncr, parse |-> "ParseIncr"]
      [] function_ptr = "EchoCommand" ->
           [pipeline |-> "echo", command_name |-> kEcho, parse |-> "none"]

\* client_->NewSession(read_only): a session object of its own, held by the
\* pipeline's local shared_ptr.  The object is named after the call whose
\* thread allocated it.
NewSession(call, read_only) ==
    [call EXCEPT !.trace = Append(@, IF read_only THEN "NewSession(true)"
                                                  ELSE "NewSession()"),
                 !.session = call.id,
                 !.session_read_only = read_only,
                 !.session_refs = {"pipeline"}]

\* RedisServiceImpl::ConfigureSession
ConfigureSession(call) ==
    [call EXCEPT !.trace = Append(@, "SetTimeoutMillis"),
                 !.session_timeout_millis =
                     FLAGS_redis_service_yb_client_timeout_millis]

\* session->SetFlushMode(YBSession::FlushMode::MANUAL_FLUSH)
SetFlushMode(call, mode) ==
    [call EXCEPT !.trace = Append(@, "SetFlushMode"),
                 !.session_flush_mode = mode]

\* table_->NewRedisRead() / NewRedisWrite(): the operation, held by the
\* pipeline's local shared_ptr, and the injected parser run on it.
NewOp(call, new_op, parse, parse_status) ==
    [call EXCEPT !.trace = @ \o <<new_op, parse>>,
                 !.touched = Append(@, "cmd_args"),
                 !.parse_status = parse_status,
                 !.op_refs = {"pipeline"}]

\* The pipeline returns: its local shared_ptrs go, the completion callback
\* (if one was made) keeps its copies.
PipelineReturns(call) ==
    [call EXCEPT !.session_refs = @ \ {"pipeline"},
                 !.op_refs = @ \ {"pipeline"}]

\* new ReadCommandCb / WriteCommandCb (session, call, op, metrics_[name],
\* metrics_[internal]) handed to ReadAsync / FlushAsync.
Submit(call, async, cb, command_name, internal) ==
    [call EXCEPT !.trace = Append(@, async),
                 !.touched = Append(@, cb),
                 !.cb = cb,
                 !.cb_metrics = command_name,
                 !.cb_metrics_internal = internal,
                 !.session_refs = @ \cup {cb},
                 !.op_refs = @ \cup {cb},
                 !.owner = "callback",
                 !.pc = "submitted"]

\* EchoCommand reading the vector one element too early.
EchoCommand_WrongIndex(call) ==
    [RespondSuccess(call, call.cmd_args[1], kEcho) EXCEPT !.pc = "done"]

\* RedisServiceImpl::EchoCommand: the payload is cmd_args[1] of the code,
\* the second element of the vector.
EchoCommand(call) ==
    [RespondSuccess(Touch(call, <<"cmd_args", "RpcContext">>),
                    call.cmd_args[2], kEcho) EXCEPT !.pc = "done"]

\* ReadCommand without the return after the parse failure: the failure is
\* sent and the read is submitted all the same.
ReadCommand_NoReturn(call, command_name, parse, parse_status, flush_status) ==
    LET configured == [call EXCEPT !.trace = @ \o
                          <<"NewSession(true)", "SetTimeoutMillis", "SetFlushMode">>]
        parsed     == [configured EXCEPT !.trace = @ \o <<"NewRedisRead", parse>>,
                                         !.parse_status = parse_status]
        answered   == IF parse_status.code # "OK"
                      THEN RespondWithFailure(parse_status.msg, parsed)
                      ELSE parsed
    IN  [answered EXCEPT !.trace = @ \o <<"ReadAsync">>,
                         !.cb = "ReadCommandCb",
                         !.cb_metrics = command_name,
                         !.cb_metrics_internal = kGetInternal,
                         !.owner = "callback",
                         !.pc = "submitted"]

\* ReadCommand logging the command name once the read is submitted.
ReadCommand_LogAfterSubmit(call, command_name, parse, parse_status, flush_status) ==
    LET configured == SetFlushMode(ConfigureSession(NewSession(call, TRUE)),
                                   "MANUAL_FLUSH")
        parsed     == NewOp(configured, "NewRedisRead", parse, parse_status)
    IN  IF flush_status.code # "OK"
        THEN [configured EXCEPT !.pc = "aborted"]
        ELSE IF parse_status.code # "OK"
        THEN PipelineReturns([RespondWithFailure(parse_status.msg, parsed)
                                 EXCEPT !.pc = "done"])
        ELSE PipelineReturns(Touch(Submit(parsed, "ReadAsync", "ReadCommandCb",
                                          command_name, kGetInternal),
                                   <<"cmd_args">>))

\* RedisServiceImpl::ReadCommand.  parse_status is what the injected parser
\* returns, flush_status what SetFlushMode returns (under CHECK_OK).
ReadCommand(call, command_name, parse, parse_status, flush_status) ==
    LET configured == SetFlushMode(ConfigureSession(NewSession(call, TRUE)),
                                   "MANUAL_FLUSH")
        parsed     == NewOp(configured, "NewRedisRead", parse, parse_status)
    IN  IF flush_status.code # "OK"
        THEN [configured EXCEPT !.pc = "aborted"]
        ELSE IF parse_status.code # "OK"
        THEN PipelineReturns([RespondWithFailure(parse_status.msg, parsed)
                                 EXCEPT !.pc = "done"])
        ELSE PipelineReturns(Submit(parsed, "ReadAsync", "ReadCommandCb",
                                    command_name, kGetInternal))

\* WriteCommand that applies the operation and never flushes the session.
WriteCommand_NoFlush(call, command_name, parse, parse_status, flush_status, apply_status) ==
    LET configured == [call EXCEPT !.trace = @ \o
                          <<"NewSession()", "SetTimeoutMillis", "SetFlushMode">>]
        parsed     == [configured EXCEPT !.trace = @ \o <<"NewRedisWrite", parse>>,
                                         !.parse_status = parse_status]
    IN  IF parse_status.code # "OK"
        THEN [RespondWithFailure(parse_status.msg, parsed) EXCEPT !.pc = "done"]
        ELSE [parsed EXCEPT !.trace = @ \o <<"Apply">>, !.pc = "submitted"]

\* WriteCommand that applies the operation before it looks at the parser's
\* status.
WriteCommand_ApplyBeforeCheck(call, command_name, parse, parse_status, flush_status, apply_status) ==
    LET configured == [call EXCEPT !.trace = @ \o
                          <<"NewSession()", "SetTimeoutMillis", "SetFlushMode">>]
        parsed     == [configured EXCEPT !.trace = @ \o <<"NewRedisWrite", parse>>,
                                         !.parse_status = parse_status]
        applied    == [parsed EXCEPT !.trace = @ \o <<"Apply">>]
    IN  IF parse_status.code # "OK"
        THEN [RespondWithFailure(parse_status.msg, applied) EXCEPT !.pc = "done"]
        ELSE [applied EXCEPT !.trace = @ \o <<"FlushAsync">>,
                             !.cb = "WriteCommandCb",
                             !.cb_metrics = command_name,
                             !.cb_metrics_internal = kSetInternal,
                             !.owner = "callback",
                             !.pc = "submitted"]

\* WriteCommand configuring its session only after the parser has run.
WriteCommand_ConfigureLate(call, command_name, parse, parse_status, flush_status, apply_status) ==
    LET parsed     == NewOp(NewSession(call, FALSE), "NewRedisWrite", parse,
                            parse_status)
        configured == SetFlushMode(ConfigureSession(parsed), "MANUAL_FLUSH")
        applied    == [configured EXCEPT !.trace = Append(@, "Apply")]
    IN  IF flush_status.code # "OK"
        THEN [configured EXCEPT !.pc = "aborted"]
        ELSE IF parse_status.code # "OK"
        THEN PipelineReturns([RespondWithFailure(parse_status.msg, configured)
                                 EXCEPT !.pc = "done"])
        ELSE IF apply_status.code # "OK"
        THEN [applied EXCEPT !.pc = "aborted"]
        ELSE PipelineReturns(Submit(applied, "FlushAsync", "WriteCommandCb",
                                    command_name, kSetInternal))

\* RedisServiceImpl::WriteCommand.  apply_status is what Apply returns
\* (under CHECK_OK).
WriteCommand(call, command_name, parse, parse_status, flush_status, apply_status) ==
    LET configured == SetFlushMode(ConfigureSession(NewSession(call, FALSE)),
                                   "MANUAL_FLUSH")
        parsed     == NewOp(configured, "NewRedisWrite", parse, parse_status)
        applied    == [parsed EXCEPT !.trace = Append(@, "Apply")]
    IN  IF flush_status.code # "OK"
        THEN [configured EXCEPT !.pc = "aborted"]
        ELSE IF parse_status.code # "OK"
        THEN PipelineReturns([RespondWithFailure(parse_status.msg, parsed)
                                 EXCEPT !.pc = "done"])
        ELSE IF apply_status.code # "OK"
        THEN [applied EXCEPT !.pc = "aborted"]
        ELSE PipelineReturns(Submit(applied, "FlushAsync", "WriteCommandCb",
                                    command_name, kSetInternal))

\* (this->*cmd_info->function_ptr)(call, c)
InvokeHandler(call, function_ptr, parse_status, flush_status, apply_status) ==
    LET b      == HandlerBinding(function_ptr)
        called == [call EXCEPT !.handler = function_ptr]
    IN  CASE b.pipeline = "echo"  -> EchoCommand(called)
          [] b.pipeline = "read"  ->
               ReadCommand(called, b.command_name, b.parse, parse_status, flush_status)
          [] b.pipeline = "write" ->
               WriteCommand(called, b.command_name, b.parse, parse_status,
                            flush_status, apply_status)

\* The dispatch of one command with one of its tests changed: "exact"
\* tests size < arity, "atleast" tests size <= -arity, "unsupported" sends
\* the text of the arity failure for an unknown command.
HandleCommand_Changed(change, call, parse_status, flush_status, apply_status) ==
    LET size == Len(call.cmd_args)
    IN  IF call.cmd_info = nullptr
        THEN [RespondWithFailure(IF change = "unsupported"
                                 THEN <<"Too few arguments.">>
                                 ELSE <<"Unsupported call.">>, call)
                 EXCEPT !.pc = "done"]
        ELSE LET cmd_info == command_table[call.cmd_info]
             IN  IF cmd_info.arity < 0 /\
                    (IF change = "atleast" THEN size <= -1 * cmd_info.arity
                                           ELSE size < -1 * cmd_info.arity)
                 THEN [RespondWithFailure(<<"Too few arguments.">>, call)
                          EXCEPT !.pc = "done"]
                 ELSE IF cmd_info.arity > 0 /\
                         (IF change = "exact" THEN size < cmd_info.arity
                                              ELSE size # cmd_info.arity)
                 THEN [RespondWithFailure(<<"Wrong number of arguments.">>, call)
                          EXCEPT !.pc = "done"]
                 ELSE InvokeHandler(call, cmd_info.function_ptr,
                                    parse_status, flush_status, apply_status)

HandleCommand_ExactAsLess(call, parse_status, flush_status, apply_status) ==
    HandleCommand_Changed("exact", call, parse_status, flush_status, apply_status)

HandleCommand_AtLeastOffByOne(call, parse_status, flush_status, apply_status) ==
    HandleCommand_Changed("atleast", call, parse_status, flush_status, apply_status)

HandleCommand_UnsupportedText(call, parse_status, flush_status, apply_status) ==
    HandleCommand_Changed("unsupported", call, parse_status, flush_status, apply_status)

\* ValidateAndHandle, "Handle the current redis command": the unsupported
\* check, the two arity checks, then the bound handler.
HandleCommand(call, parse_status, flush_status, apply_status) ==
    LET size == Len(call.cmd_args)
    IN  IF call.cmd_info = nullptr
        THEN [RespondWithFailure(<<"Unsupported call.">>, call) EXCEPT !.pc = "done"]
        ELSE LET cmd_info == command_table[call.cmd_info]
                 sized    == Touch(call, <<"cmd_args">>)
             IN  IF cmd_info.arity < 0 /\ size < -1 * cmd_info.arity
                 THEN [RespondWithFailure(<<"Too few arguments.">>, sized)
                          EXCEPT !.pc = "done"]
                 ELSE IF cmd_info.arity > 0 /\ size # cmd_info.arity
                 THEN [RespondWithFailure(<<"Wrong number of arguments.">>, sized)
                          EXCEPT !.pc = "done"]
                 ELSE InvokeHandler(sized, cmd_info.function_ptr,
                                    parse_status, flush_status, apply_status)

\* ValidateAndHandle testing the command before the client.
ValidateAndHandleCall_CommandFirst(call, parse_status, flush_status, apply_status) ==
    IF call.cmd_info = nullptr
    THEN [RespondWithFailure(<<"Unsupported call.">>, call) EXCEPT !.pc = "done"]
    ELSE IF call.status.code # "OK"
    THEN [RespondWithFailure(<<"Could not open .redis table. ">>
                                \o ToString(call.status), call)
             EXCEPT !.pc = "done"]
    ELSE HandleCommand(call, parse_status, flush_status, apply_status)

\* ValidateAndHandle going on to the command whatever SetUpYBClient
\* returned.
ValidateAndHandleCall_IgnoreStatus(call, parse_status, flush_status, apply_status) ==
    HandleCommand(call, parse_status, flush_status, apply_status)

\* ValidateAndHandle after the client check: status is what SetUpYBClient
\* returned (OK when the flag was already set).
ValidateAndHandleCall(call, parse_status, flush_status, apply_status) ==
    IF call.status.code # "OK"
    THEN [RespondWithFailure(<<"Could not open .redis table. ">>
                                \o ToString(call.status), call)
             EXCEPT !.pc = "done"]
    ELSE HandleCommand(call, parse_status, flush_status, apply_status)

\* The metrics_[...] lookups a dispatch step performed (operator[] inserts
\* a missing key).
MetricsLookedUp(call) ==
    { call.responses[k].metrics : k \in 1..Len(call.responses) }
    \cup (IF call.cb = "none" THEN {}
          ELSE {call.cb_metrics, call.cb_metrics_internal})

\* ----------------------------------------------------------------- actions
\* The argument vectors the transport hands to Handle: non-empty, the first
\* element being the command name.
InputVectors == UNION { ArgVectors(CommandNames, n) : n \in 1..MaxArgs }

\* The vector of the calls that race with call 1: a write.
RaceVectors == { <<kSet, <<"k">>, <<"v">>>> }

\* The vectors of the fairly scheduled service: a read and a write.
LiveVectors == { <<kGet, <<"k">>>>, <<kSet, <<"k">>, <<"v">>>> }

\* What SetFlushMode on a fresh session and Apply of one operation return.
FlushModeStatuses == { OK }
ApplyStatuses == { OK }

\* Maximum number of pending errors a failed flush leaves in the session.
MaxPendingErrors == 1

\* The environment of a call: the vectors the transport may deliver and the
\* statuses the session calls under CHECK_OK may return.
Env(vectors) ==
    [vectors |-> vectors,
     flush_statuses |-> FlushModeStatuses,
     apply_statuses |-> ApplyStatuses]

\* Call 1 ranges over every vector; the calls running concurrently with it
\* range over the racing vectors.
EnvOf(i) == IF i = 1 THEN Env(InputVectors) ELSE Env(RaceVectors)

\* The calls whose thread is inside SetUpYBClient.
InSetUp == { j \in Calls : calls[j].pc \in {"setup_lock", "setup_build", "setup_open"} }

\* ValidateAndHandle from the test of SetUpYBClient's status to its return,
\* the bound handler and its pipeline included; call is the call as the
\* thread holds it at that point.
ValidateAndHandle(i, call, env) ==
    \E parse_status \in ParseStatuses, flush_status \in env.flush_statuses,
       apply_status \in env.apply_statuses :
         LET next == ValidateAndHandleCall(call, parse_status,
                                           flush_status, apply_status)
         IN  /\ calls' = [calls EXCEPT ![i] = next]
             /\ metrics_' = metrics_ \cup MetricsLookedUp(next)
             /\ fatal' = (next.pc = "aborted")

\* Handle calling SetUpYBClient whatever the flag says.
Handle_NoFastPath(i, env) ==
    /\ ~fatal
    /\ calls[i].pc = "idle"
    /\ \E cmd_args \in env.vectors :
         IF Len(cmd_args) < 1
         THEN /\ fatal' = TRUE
              /\ calls' = [calls EXCEPT ![i].pc = "aborted"]
              /\ metrics_' = metrics_
         ELSE /\ calls' = [calls EXCEPT ![i] = [calls[i] EXCEPT
                     !.cmd_args = cmd_args,
                     !.id = i,
                     !.owner = "dispatcher",
                     !.touched = <<"GetClientCommand", "cmd_args">>,
                     !.cmd_info = FetchHandler(command_name_to_info_map_, cmd_args),
                     !.setup_called = TRUE,
                     !.pc = "setup_lock"]]
              /\ metrics_' = metrics_
              /\ fatal' = fatal
    /\ UNCHANGED <<yb_client_initialized_, yb_mutex_, client_, table_,
                   command_name_to_info_map_, command_table>>

\* RedisServiceImpl::Handle: FetchHandler (with its CHECK_GE) and the load
\* of the initialized flag in ValidateAndHandle; with the flag set the
\* thread goes on to the command, otherwise it calls SetUpYBClient.
Handle(i, env) ==
    /\ ~fatal
    /\ calls[i].pc = "idle"
    /\ \E cmd_args \in env.vectors :
         IF Len(cmd_args) < 1
         THEN /\ fatal' = TRUE
              /\ calls' = [calls EXCEPT ![i].pc = "aborted"]
              /\ metrics_' = metrics_
         ELSE LET fetched == [calls[i] EXCEPT
                     !.cmd_args = cmd_args,
                     !.id = i,
                     !.owner = "dispatcher",
                     !.touched = <<"GetClientCommand", "cmd_args">>,
                     !.cmd_info = FetchHandler(command_name_to_info_map_, cmd_args),
                     !.setup_called = ~yb_client_initialized_]
              IN  IF yb_client_initialized_
                  THEN ValidateAndHandle(i, fetched, env)
                  ELSE /\ calls' = [calls EXCEPT ![i] =
                                       [fetched EXCEPT !.pc = "setup_lock"]]
                       /\ metrics_' = metrics_
                       /\ fatal' = fatal
    /\ UNCHANGED <<yb_client_initialized_, yb_mutex_, client_, table_,
                   command_name_to_info_map_, command_table>>

\* SetUpYBClient entered without waiting for the mutex.
SetUpYBClient_Lock_NoWait(i) ==
    /\ ~fatal
    /\ calls[i].pc = "setup_lock"
    /\ yb_mutex_' = i
    /\ calls' = [calls EXCEPT ![i].pc = "setup_build"]
    /\ UNCHANGED <<yb_client_initialized_, client_, table_,
                   command_name_to_info_map_, command_table, metrics_, fatal>>

\* SetUpYBClient: std::lock_guard acquires yb_mutex_.
SetUpYBClient_Lock(i) ==
    /\ ~fatal
    /\ calls[i].pc = "setup_lock"
    /\ yb_mutex_ = 0
    /\ yb_mutex_' = i
    /\ calls' = [calls EXCEPT ![i].pc = "setup_build"]
    /\ UNCHANGED <<yb_client_initialized_, client_, table_,
                   command_name_to_info_map_, command_table, metrics_, fatal>>

\* SetUpYBClient without the second test of the flag under the mutex.
SetUpYBClient_Build_NoRecheck(i, env) ==
    /\ ~fatal
    /\ calls[i].pc = "setup_build"
    /\ yb_mutex_ = i
    /\ \E s \in BackendStatuses :
         IF s.code = "OK"
         THEN /\ calls' = [calls EXCEPT ![i].built = TRUE,
                                        ![i].pc = "setup_open"]
              /\ client_' = "redis_ybclient"
              /\ yb_mutex_' = yb_mutex_
              /\ UNCHANGED <<metrics_, fatal>>
         ELSE /\ ValidateAndHandle(i, [calls[i] EXCEPT !.built = TRUE,
                                                       !.status = s], env)
              /\ client_' = client_
              /\ yb_mutex_' = 0
    /\ UNCHANGED <<yb_client_initialized_, table_, command_name_to_info_map_, command_table>>

\* SetUpYBClient: the re-check of the flag under the mutex and
\* client_builder.Build(&client_).  A return (flag found set, or
\* RETURN_NOT_OK) releases the mutex and the thread goes on in
\* ValidateAndHandle with the status.
SetUpYBClient_Build(i, env) ==
    /\ ~fatal
    /\ calls[i].pc = "setup_build"
    /\ yb_mutex_ = i
    /\ IF yb_client_initialized_
       THEN /\ ValidateAndHandle(i, [calls[i] EXCEPT !.status = OK], env)
            /\ yb_mutex_' = 0
            /\ client_' = client_
       ELSE \E s \in BackendStatuses :
              IF s.code = "OK"
              THEN /\ calls' = [calls EXCEPT ![i].built = TRUE,
                                             ![i].pc = "setup_open"]
                   /\ client_' = "redis_ybclient"
                   /\ yb_mutex_' = yb_mutex_
                   /\ UNCHANGED <<metrics_, fatal>>
              ELSE /\ ValidateAndHandle(i, [calls[i] EXCEPT !.built = TRUE,
                                                            !.status = s], env)
                   /\ client_' = client_
                   /\ yb_mutex_' = 0
    /\ UNCHANGED <<yb_client_initialized_, table_, command_name_to_info_map_, command_table>>

\* SetUpYBClient storing the flag before it looks at OpenTable's status.
SetUpYBClient_OpenTable_StoreFirst(i, env) ==
    /\ ~fatal
    /\ calls[i].pc = "setup_open"
    /\ yb_mutex_ = i
    /\ \E s \in BackendStatuses :
         /\ table_' = IF s.code = "OK" THEN ".redis" ELSE table_
         /\ yb_client_initialized_' = TRUE
         /\ ValidateAndHandle(i, [calls[i] EXCEPT !.status = s], env)
    /\ yb_mutex_' = 0
    /\ UNCHANGED <<client_, command_name_to_info_map_, command_table>>

\* SetUpYBClient: client_->OpenTable, the store of the flag and the return,
\* after which the thread goes on in ValidateAndHandle with the status.
SetUpYBClient_OpenTable(i, env) ==
    /\ ~fatal
    /\ calls[i].pc = "setup_open"
    /\ yb_mutex_ = i
    /\ \E s \in BackendStatuses :
         /\ IF s.code = "OK"
            THEN /\ table_' = ".redis"
                 /\ yb_client_initialized_' = TRUE
            ELSE /\ table_' = table_
                 /\ yb_client_initialized_' = yb_client_initialized_
         /\ ValidateAndHandle(i, [calls[i] EXCEPT !.status = s], env)
    /\ yb_mutex_' = 0
    /\ UNCHANGED <<client_, command_name_to_info_map_, command_table>>

\* The callback timing the backend only when the status is OK.
EnterRun_OnlyOnSuccess(call, status) ==
    [call EXCEPT !.samples = IF status.code = "OK"
                             THEN Append(@, call.cb_metrics_internal) ELSE @,
                 !.cb_status = status,
                 !.cb_trace = Append(@, "Increment")]

\* The callback is entered with the status: metrics_internal_->Increment.
EnterRun(call, status) ==
    [call EXCEPT !.samples = Append(@, call.cb_metrics_internal),
                 !.cb_status = status,
                 !.cb_trace = Append(@, "Increment")]

\* The callback sending a new, empty response object.
SendResponseCopy_Empty(call) ==
    [RespondSuccess(call, <<>>, call.cb_metrics)
        EXCEPT !.cb_trace = Append(@, "RespondSuccess")]

\* The callback copies the operation's response into a new response object
\* and sends it: RespondSuccess(ok_response).
SendResponseCopy(call) ==
    [RespondSuccess(call, call.op_response, call.cb_metrics)
        EXCEPT !.cb_trace = Append(@, "RespondSuccess")]

\* The callback sends the status it was given: RespondFailure(status).
SendStatus(call) ==
    [RespondFailure(call, call.cb_status, call.cb_metrics)
        EXCEPT !.cb_trace = Append(@, "RespondFailure")]

\* Run ending without delete this: the callback object stays, and with it
\* its shared_ptrs.
DeleteThis_Leak(call) ==
    [call EXCEPT !.cb = "deleted",
                 !.pc = "done"]

\* delete this: the callback and its shared_ptrs to the session and the
\* operation go.
DeleteThis(call) ==
    [call EXCEPT !.cb_trace = Append(@, "delete this"),
                 !.session_refs = @ \ {call.cb},
                 !.op_refs = @ \ {call.cb},
                 !.cb = "deleted",
                 !.pc = "done"]

\* ReadCommandCb::Run, invoked by the backend with the status of the read;
\* resp is the response the backend left in the operation.
ReadCommandCb_Run(i) ==
    /\ ~fatal
    /\ calls[i].pc = "submitted"
    /\ calls[i].cb = "ReadCommandCb"
    /\ \E status \in BackendStatuses, resp \in BackendResponses :
         LET timed == EnterRun(calls[i], status)
             sent  == IF status.code = "OK"
                      THEN SendResponseCopy([timed EXCEPT !.op_response = resp])
                      ELSE SendStatus(timed)
         IN  calls' = [calls EXCEPT ![i] = DeleteThis(sent)]
    /\ UNCHANGED <<yb_client_initialized_, yb_mutex_, client_, table_,
                   command_name_to_info_map_, command_table, metrics_, fatal>>

\* session_->GetPendingErrors(&errors, nullptr): the session hands over
\* nerrors error objects, which the callback now owns.
GetPendingErrors(call, nerrors) ==
    [call EXCEPT !.trace = Append(@, "GetPendingErrors"),
                 !.cb_trace = Append(@, "GetPendingErrors"),
                 !.errors_returned = nerrors,
                 !.errors_live = nerrors]

\* for (const auto& error : errors) LOG(WARNING) << ...
LogPendingErrors(call) ==
    [call EXCEPT !.cb_trace = @ \o [k \in 1..call.errors_live |-> "LOG(WARNING)"],
                 !.errors_logged = call.errors_live]

\* ~ElementDeleter at the end of the failure branch deletes every error.
ElementDeleter(call) ==
    [call EXCEPT !.cb_trace = Append(@, "~ElementDeleter"),
                 !.errors_live = 0]

\* WriteCommandCb::Run sending the failure before it asks the session for
\* its pending errors.
WriteCommandCb_Run_RespondFirst(i) ==
    /\ ~fatal
    /\ calls[i].pc = "submitted"
    /\ calls[i].cb = "WriteCommandCb"
    /\ \E status \in BackendStatuses, resp \in BackendResponses,
          nerrors \in 0..MaxPendingErrors :
         LET timed  == EnterRun(calls[i], status)
             sent   == IF status.code = "OK"
                       THEN SendResponseCopy([timed EXCEPT !.op_response = resp])
                       ELSE ElementDeleter(LogPendingErrors(
                                GetPendingErrors(SendStatus(timed), nerrors)))
         IN  calls' = [calls EXCEPT ![i] = DeleteThis(sent)]
    /\ UNCHANGED <<yb_client_initialized_, yb_mutex_, client_, table_,
                   command_name_to_info_map_, command_table, metrics_, fatal>>

\* WriteCommandCb::Run, invoked by the backend with the status of the
\* flush; resp is the response the backend left in the operation and
\* nerrors the number of errors pending in the session.
WriteCommandCb_Run(i) ==
    /\ ~fatal
    /\ calls[i].pc = "submitted"
    /\ calls[i].cb = "WriteCommandCb"
    /\ \E status \in BackendStatuses, resp \in BackendResponses,
          nerrors \in 0..MaxPendingErrors :
         LET timed  == EnterRun(calls[i], status)
             sent   == IF status.code = "OK"
                       THEN SendResponseCopy([timed EXCEPT !.op_response = resp])
                       ELSE ElementDeleter(SendStatus(
                                LogPendingErrors(GetPendingErrors(timed, nerrors))))
         IN  calls' = [calls EXCEPT ![i] = DeleteThis(sent)]
    /\ UNCHANGED <<yb_client_initialized_, yb_mutex_, client_, table_,
                   command_name_to_info_map_, command_table, metrics_, fatal>>

Next ==
    \E i \in Calls :
        \/ Handle(i, EnvOf(i))
        \/ SetUpYBClient_Lock(i)
        \/ SetUpYBClient_Build(i, EnvOf(i))
        \/ SetUpYBClient_OpenTable(i, EnvOf(i))
        \/ ReadCommandCb_Run(i)
        \/ WriteCommandCb_Run(i)

Spec == Init /\ [][Next]_vars

\* The same service with every call drawn from the live vectors, the
\* dispatching threads and the backend being scheduled fairly: a thread
\* that can take a step takes it, and the backend invokes the callback of
\* every operation submitted to it.
NextLive ==
    \E i \in Calls :
        \/ Handle(i, Env(LiveVectors))
        \/ SetUpYBClient_Lock(i)
        \/ SetUpYBClient_Build(i, Env(LiveVectors))
        \/ SetUpYBClient_OpenTable(i, Env(LiveVectors))
        \/ ReadCommandCb_Run(i)
        \/ WriteCommandCb_Run(i)

Fairness ==
    \A i \in Calls :
        /\ WF_vars(SetUpYBClient_Lock(i))
        /\ WF_vars(SetUpYBClient_Build(i, Env(LiveVectors)))
        /\ WF_vars(SetUpYBClient_OpenTable(i, Env(LiveVectors)))
        /\ WF_vars(ReadCommandCb_Run(i))
        /\ WF_vars(WriteCommandCb_Run(i))

SpecLive == Init /\ [][NextLive]_vars /\ Fairness

\* Every spelling of a lower-case name in upper and lower case letters.
CaseVariants(name) ==
    LET UpperOf(ch) == IF \E k \in 1..Len(LowerChars) : LowerChars[k] = ch
                       THEN UpperChars[CHOOSE k \in 1..Len(LowerChars) :
                                           LowerChars[k] = ch]
                       ELSE ch
    IN  { [k \in 1..Len(name) |-> IF k \in upper THEN UpperOf(name[k]) ELSE name[k]] :
            upper \in SUBSET (1..Len(name)) }

\* The spellings of each declared command, by its index.
Spellings == [idx \in 1..Len(MethodOrder) |-> CaseVariants(MethodOrder[idx])]

\* Names that are no spelling of a command: a stranger in every case, a
\* prefix and an extension of a command, and the internal metrics keys.
OtherNames ==
    CaseVariants(<<"f","o","o">>)
    \cup { <<"g","e">>, <<"g","e","t","s">>, <<"G","E","T","S">>,
           kError, kGetInternal, kSetInternal,
           <<"S","E","T","_","I","N","T","E","R","N","A","L">> }

\* Every spelling of the three keys registered in metrics_ alone.
InternalKeySpellings ==
    CaseVariants(kError) \cup CaseVariants(kGetInternal) \cup CaseVariants(kSetInternal)

\* One command per name, with a key as its only argument.
CasedVectors ==
    { <<nm, <<"k">>>> : nm \in (UNION { Spellings[idx] : idx \in DOMAIN Spellings })
                                 \cup OtherNames \cup InternalKeySpellings }

\* Command tables a build may carry: the table of the header, the table
\* short of its last entry, the table with one entry more, the table with
\* its first two entries exchanged, and the table with its last entry
\* under another name.
CandidateTables ==
    LET ping == [name |-> <<"p","i","n","g">>, function_ptr |-> "EchoCommand",
                 arity |-> 2]
        n    == Len(kRedisCommandTable)
    IN  { kRedisCommandTable,
          SubSeq(kRedisCommandTable, 1, n - 1),
          Append(kRedisCommandTable, ping),
          <<kRedisCommandTable[2], kRedisCommandTable[1]>>
              \o SubSeq(kRedisCommandTable, 3, n),
          [kRedisCommandTable EXCEPT ![n] = ping] }

\* The service constructed over any of these tables and then sent, by one
\* client, any name in any spelling.
InitRegistry == \E table \in CandidateTables : Construct(table)

NextRegistry ==
    \/ Handle(1, Env(CasedVectors))
    \/ SetUpYBClient_Lock(1)
    \/ SetUpYBClient_Build(1, Env(CasedVectors))
    \/ SetUpYBClient_OpenTable(1, Env(CasedVectors))
    \/ ReadCommandCb_Run(1)
    \/ WriteCommandCb_Run(1)

SpecRegistry == InitRegistry /\ [][NextRegistry]_vars

\* The environment that withholds nothing: the transport may deliver an
\* empty vector, and SetFlushMode and Apply may return any status.
EnvAny ==
    [vectors |-> LiveVectors \cup { <<>> },
     flush_statuses |-> BackendStatuses,
     apply_statuses |-> BackendStatuses]

\* The service under that environment.
NextAny ==
    \E i \in Calls :
        \/ Handle(i, EnvAny)
        \/ SetUpYBClient_Lock(i)
        \/ SetUpYBClient_Build(i, EnvAny)
        \/ SetUpYBClient_OpenTable(i, EnvAny)
        \/ ReadCommandCb_Run(i)
        \/ WriteCommandCb_Run(i)

SpecAny == Init /\ [][NextAny]_vars

\* ================================================================ properties
\* The calls whose thread has returned from SetUpYBClient.
Returned(i) == calls[i].setup_called /\ i \notin InSetUp /\ calls[i].pc # "idle"

\* The head of the message of a failure sent by RespondWithFailure.
FailureText(r) == IF r.kind = "failure" /\ r.status.msg # <<>>
                  THEN Head(r.status.msg) ELSE "none"

\* The backend operations a call submitted or queued.
BackendOps(call) ==
    { k \in 1..Len(call.trace) : call.trace[k] \in {"ReadAsync", "Apply", "FlushAsync"} }

\* C1: every call is answered at most once, never with both a success and a
\* failure; a call whose handling has ended (on any path, completions
\* included) has exactly one response, and a call still being handled has
\* none.
C1_ExactlyOneResponse ==
    \A i \in Calls :
        /\ Len(calls[i].responses) <= 1
        /\ calls[i].pc = "done" => Len(calls[i].responses) = 1
        /\ calls[i].pc \in {"idle", "setup_lock", "setup_build", "setup_open", "submitted"}
              => Len(calls[i].responses) = 0

\* Two calls both answered by their completion callbacks, one with a
\* success and one with a failure.
C1_Witness ==
    \E i, j \in Calls :
        /\ i # j
        /\ calls[i].pc = "done" /\ calls[i].cb = "deleted"
        /\ calls[j].pc = "done" /\ calls[j].cb = "deleted"
        /\ calls[i].responses[1].kind = "success"
        /\ calls[j].responses[1].kind = "failure"

C3_Original ==
    [](InSetUp = Calls =>
         []((\A i \in Calls : Returned(i)) =>
               /\ Cardinality({ i \in Calls : calls[i].built }) = 1
               /\ \A i, j \in Calls : calls[i].status = calls[j].status))

\* C3 amended: at most one caller completes a build/open sequence
\* successfully and the flag is set exactly then; a caller that did not
\* run the sequence found the flag set and returns success; a caller
\* returns a failure only as the result of its own attempt; nobody is in
\* the sequence once the flag is set; and when no attempt failed exactly
\* one sequence was performed.
C3_OneSuccessfulSetUp ==
    LET done    == { i \in Calls : Returned(i) }
        success == { i \in done : calls[i].built /\ calls[i].status.code = "OK" }
    IN  /\ Cardinality(success) <= 1
        /\ yb_client_initialized_ <=> success # {}
        /\ \A i \in done : ~calls[i].built => calls[i].status.code = "OK"
        /\ \A i \in done : ~calls[i].built => yb_client_initialized_
        /\ \A i \in done : calls[i].status.code # "OK" => calls[i].built
        /\ \A i \in Calls : calls[i].pc = "setup_open" => ~yb_client_initialized_
        /\ (InSetUp = {} /\ done # {} /\ \A i \in done : calls[i].status.code = "OK")
              => Cardinality({ i \in done : calls[i].built }) = 1

\* Two callers that were inside the initializer together: one has built the
\* client and set the flag, the other came back without building.
C3_Witness ==
    \E i, j \in Calls :
        /\ i # j
        /\ Returned(i) /\ calls[i].built /\ calls[i].status.code = "OK"
        /\ Returned(j) /\ ~calls[j].built /\ calls[j].status.code = "OK"

\* ------------------------------------------------------------ C4 .. C10
\* The names the registry was built for, and the contract of a call's
\* command, both read off the command table by name.
Registered == { kRedisCommandTable[k].name : k \in 1..Len(kRedisCommandTable) }

Known(call) == call.pc # "idle" /\ ToLowerCase(call.cmd_args[1]) \in Registered

ContractOf(call) ==
    kRedisCommandTable[CHOOSE k \in 1..Len(kRedisCommandTable) :
                          kRedisCommandTable[k].name = ToLowerCase(call.cmd_args[1])]

\* The handling of the call by the dispatching thread has ended.
Handled(call) == call.pc \in {"submitted", "done"}

\* The single response of the call is the initialization failure built
\* from the status SetUpYBClient returned.
InitFailureSent(call) ==
    /\ call.pc = "done"
    /\ call.responses = << Response("failure", <<>>,
            RuntimeError(<<"Could not open .redis table. ">> \o ToString(call.status)
                            \o <<" : ">> \o call.cmd_args[1]), kError) >>

\* The single response of the call is the failure with the given text.
FailureSent(call, text) ==
    /\ call.pc = "done"
    /\ call.responses = << Response("failure", <<>>,
            RuntimeError(<<text>> \o <<" : ">> \o call.cmd_args[1]), kError) >>

\* C4: the checks are made in a fixed order: a failed initialization is
\* answered with the initialization failure whatever the command and its
\* argument count; with the client in place an unknown command is answered
\* "Unsupported call."; an arity failure is sent only for a known command
\* of a call whose client check succeeded, the flag being set.
C4_CheckOrder ==
    \A i \in Calls :
        Handled(calls[i]) =>
            /\ calls[i].status.code # "OK" =>
                  InitFailureSent(calls[i]) /\ calls[i].handler = "none"
            /\ (calls[i].status.code = "OK" /\ ~Known(calls[i])) =>
                  FailureSent(calls[i], "Unsupported call.")
            /\ (\E r \in { calls[i].responses[k] : k \in 1..Len(calls[i].responses) } :
                    FailureText(r) \in {"Too few arguments.", "Wrong number of arguments."})
                  => /\ Known(calls[i])
                     /\ calls[i].status.code = "OK"
                     /\ yb_client_initialized_

\* A failed initialization answered for an unknown command and, in the same
\* run, for a known command with a wrong argument count.
C4_Witness ==
    \E i, j \in Calls :
        /\ InitFailureSent(calls[i]) /\ ~Known(calls[i])
        /\ calls[i].status.code # "OK"
        /\ InitFailureSent(calls[j]) /\ Known(calls[j])

\* C5: a failed build or table open is returned to the caller and answered
\* with a failure that starts with "Could not open .redis table." and
\* carries the status; the step in which an attempt fails leaves the flag
\* false; and a caller whose attempt succeeds has set the flag and goes on
\* to its command.
C5_FailedSetUpIsRetryable ==
    /\ [](\A i \in Calls :
            (Returned(i) /\ calls[i].status.code # "OK") =>
                /\ calls[i].built
                /\ InitFailureSent(calls[i])
                /\ FailureText(calls[i].responses[1]) = "Could not open .redis table. ")
    /\ [][\A i \in Calls :
            (calls[i].status.code = "OK" /\ calls'[i].status.code # "OK") =>
                (~yb_client_initialized_ /\ ~yb_client_initialized_')]_vars
    /\ [](\A i \in Calls :
            (Returned(i) /\ calls[i].built /\ calls[i].status.code = "OK") =>
                /\ yb_client_initialized_
                /\ Handled(calls[i])
                /\ ~InitFailureSent(calls[i]))

\* One call was refused because the table could not be opened, and a call
\* after it has run the sequence again, set the flag and got its answer
\* from the backend.
C5_Witness ==
    \E i, j \in Calls :
        /\ InitFailureSent(calls[i]) /\ calls[i].built
        /\ calls[j].built /\ calls[j].status.code = "OK"
        /\ yb_client_initialized_
        /\ calls[j].pc = "done" /\ calls[j].cb = "deleted"
        /\ calls[j].responses[1].kind = "success"

\* C6 as stated: an argument count other than N for an "exactly N" command
\* always yields "Wrong number of arguments.", with no handler and no
\* backend operation.
C6_Original ==
    \A i \in Calls :
        (Handled(calls[i]) /\ Known(calls[i]) /\ ContractOf(calls[i]).arity > 0
           /\ Len(calls[i].cmd_args) # ContractOf(calls[i]).arity) =>
            /\ FailureSent(calls[i], "Wrong number of arguments.")
            /\ calls[i].handler = "none"
            /\ BackendOps(calls[i]) = {}

\* C6 amended: the same for a call whose client check succeeded; when the
\* initialization failed the answer is the initialization failure instead;
\* in both cases no handler runs and no backend operation is submitted.
C6_ExactArity ==
    \A i \in Calls :
        (Handled(calls[i]) /\ Known(calls[i]) /\ ContractOf(calls[i]).arity > 0
           /\ Len(calls[i].cmd_args) # ContractOf(calls[i]).arity) =>
            /\ IF calls[i].status.code = "OK"
               THEN FailureSent(calls[i], "Wrong number of arguments.")
               ELSE InitFailureSent(calls[i])
            /\ calls[i].handler = "none"
            /\ calls[i].trace = <<>>
            /\ calls[i].cb = "none"
            /\ BackendOps(calls[i]) = {}

\* An "exactly N" command sent with more than N arguments and refused.
C6_Witness ==
    \E i \in Calls :
        /\ Known(calls[i]) /\ ContractOf(calls[i]).arity > 0
        /\ Len(calls[i].cmd_args) > ContractOf(calls[i]).arity
        /\ FailureSent(calls[i], "Wrong number of arguments.")

\* C7 as stated: fewer than N arguments for an "at least N" command always
\* yield "Too few arguments." without the handler; N or more invoke the
\* handler and reach the parser.
C7_Original ==
    \A i \in Calls :
        (Handled(calls[i]) /\ Known(calls[i]) /\ ContractOf(calls[i]).arity < 0) =>
            IF Len(calls[i].cmd_args) < -1 * ContractOf(calls[i]).arity
            THEN FailureSent(calls[i], "Too few arguments.") /\ calls[i].handler = "none"
            ELSE /\ calls[i].handler = ContractOf(calls[i]).function_ptr
                 /\ \E k \in 1..Len(calls[i].trace) :
                       calls[i].trace[k] = HandlerBinding(calls[i].handler).parse

\* C7 amended: the same for a call whose client check succeeded; when the
\* initialization failed the answer is the initialization failure and the
\* handler is not invoked, whatever the argument count.
C7_AtLeastArity ==
    \A i \in Calls :
        (Handled(calls[i]) /\ Known(calls[i]) /\ ContractOf(calls[i]).arity < 0) =>
            IF calls[i].status.code # "OK"
            THEN InitFailureSent(calls[i]) /\ calls[i].handler = "none"
            ELSE IF Len(calls[i].cmd_args) < -1 * ContractOf(calls[i]).arity
            THEN /\ FailureSent(calls[i], "Too few arguments.")
                 /\ calls[i].handler = "none"
                 /\ calls[i].trace = <<>>
            ELSE /\ calls[i].handler = ContractOf(calls[i]).function_ptr
                 /\ \E k \in 1..Len(calls[i].trace) :
                       calls[i].trace[k] = HandlerBinding(calls[i].handler).parse

\* An "at least N" command refused with N - 1 arguments, and one with
\* exactly N arguments whose handler ran the parser.
C7_Witness ==
    \E i, j \in Calls :
        /\ Known(calls[i]) /\ ContractOf(calls[i]).arity < 0
        /\ Len(calls[i].cmd_args) = -1 * ContractOf(calls[i]).arity - 1
        /\ FailureSent(calls[i], "Too few arguments.")
        /\ Known(calls[j]) /\ ContractOf(calls[j]).arity < 0
        /\ Len(calls[j].cmd_args) = -1 * ContractOf(calls[j]).arity
        /\ calls[j].handler = ContractOf(calls[j]).function_ptr
        /\ calls[j].parse_status.code = "OK"
        /\ calls[j].pc = "submitted"

\* C8 as stated: a command whose lower-cased name is not registered is
\* answered "Unsupported call."; no handler, session or backend operation,
\* and the service keeps running.
C8_Original ==
    \A i \in Calls :
        (Handled(calls[i]) /\ ~Known(calls[i])) =>
            /\ FailureSent(calls[i], "Unsupported call.")
            /\ calls[i].handler = "none"
            /\ calls[i].trace = <<>>
            /\ ~fatal

\* C8 amended: the same for a call whose client check succeeded; when the
\* initialization failed the answer is the initialization failure instead.
C8_Unsupported ==
    \A i \in Calls :
        (calls[i].pc # "idle" /\ ~Known(calls[i])) =>
            /\ calls[i].cmd_info = nullptr
            /\ calls[i].handler = "none"
            /\ calls[i].trace = <<>>
            /\ calls[i].cb = "none"
            /\ ~fatal
            /\ Handled(calls[i]) =>
                  IF calls[i].status.code = "OK"
                  THEN FailureSent(calls[i], "Unsupported call.")
                  ELSE InitFailureSent(calls[i])

\* An unknown command answered "Unsupported call." by a service that has
\* its client, and another call served by the backend next to it.
C8_Witness ==
    \E i, j \in Calls :
        /\ ~Known(calls[i])
        /\ FailureSent(calls[i], "Unsupported call.")
        /\ yb_client_initialized_
        /\ calls[j].pc = "done" /\ calls[j].cb = "deleted"

\* The call is ECHO (in any casing) with one argument.
IsEcho(call) ==
    /\ call.pc # "idle"
    /\ ToLowerCase(call.cmd_args[1]) = kEcho
    /\ Len(call.cmd_args) = 2

\* C9 as stated: ECHO with one argument is answered with a success whose
\* payload is the argument, and nothing is asked of the backend for it.
C9_Original ==
    \A i \in Calls :
        (IsEcho(calls[i]) /\ Handled(calls[i])) =>
            /\ calls[i].responses =
                  << Response("success", calls[i].cmd_args[2], OK, kEcho) >>
            /\ ~calls[i].built
            /\ calls[i].trace = <<>>

\* C9 amended: ECHO with one argument, dispatched with the client in place
\* or after a successful initialization, is answered with a success whose
\* payload is the argument, and no session, operation or completion object
\* is created for it; as the first command it runs the client
\* initialization, and a failure of that is what the caller gets.
C9_Echo ==
    \A i \in Calls :
        (IsEcho(calls[i]) /\ Handled(calls[i])) =>
            /\ IF calls[i].status.code = "OK"
               THEN /\ calls[i].pc = "done"
                    /\ calls[i].handler = "EchoCommand"
                    /\ calls[i].responses =
                          << Response("success", calls[i].cmd_args[2], OK, kEcho) >>
               ELSE InitFailureSent(calls[i]) /\ calls[i].built
            /\ calls[i].trace = <<>>
            /\ calls[i].cb = "none"
            /\ calls[i].samples = <<>>

\* ECHO "hello" answered with "hello".
C9_Witness ==
    \E i \in Calls :
        /\ IsEcho(calls[i])
        /\ calls[i].cmd_args[2] = <<"h","e","l","l","o">>
        /\ calls[i].responses =
              << Response("success", <<"h","e","l","l","o">>, OK, kEcho) >>

\* C10: when the parser of a read or write command returns a non-OK status
\* the caller is sent, in that same step, a failure carrying the parser's
\* message, and nothing reaches the backend: no ReadAsync, no Apply, no
\* FlushAsync, no completion object, no latency sample.
C10_ParseFailure ==
    \A i \in Calls :
        calls[i].parse_status.code # "OK" =>
            /\ calls[i].pc = "done"
            /\ calls[i].responses = << Response("failure", <<>>,
                   RuntimeError(calls[i].parse_status.msg \o <<" : ">>
                                   \o calls[i].cmd_args[1]), kError) >>
            /\ BackendOps(calls[i]) = {}
            /\ calls[i].cb = "none"
            /\ calls[i].samples = <<>>

\* A read and a write whose parsers both refused the arguments.
C10_Witness ==
    \E i, j \in Calls :
        /\ calls[i].parse_status.code # "OK"
        /\ HandlerBinding(calls[i].handler).pipeline = "read"
        /\ calls[j].parse_status.code # "OK"
        /\ HandlerBinding(calls[j].handler).pipeline = "write"

\* The message holds the name as a contiguous run of its elements.
Includes(msg, name) ==
    \E k \in 0..(Len(msg) - Len(name)) :
        SubSeq(msg, k + 1, k + Len(name)) = name

\* C11: every failure response sent to a caller, whatever its origin (the
\* failed initialization, an unsupported command, an arity error, a parse
\* error, or a backend failure delivered to a read or write completion),
\* carries a message that includes the command name, cmd_args[0].
C11_FailureNamesCommand ==
    \A i \in Calls :
        \A k \in 1..Len(calls[i].responses) :
            calls[i].responses[k].kind = "failure" =>
                Includes(calls[i].responses[k].status.msg, calls[i].cmd_args[1])

\* C12: once construction has succeeded no request terminates the service:
\* whatever the argument vector (the empty one included) and whatever
\* SetFlushMode, Apply and the backend return, no CHECK fails, no thread
\* is cut off, and a call whose handling has ended on an error holds a
\* failure response.
C12_NoRequestIsFatal ==
    /\ ~fatal
    /\ \A i \in Calls : calls[i].pc # "aborted"

\* C13: command resolution is case-insensitive: a name that is a spelling,
\* in any mix of upper and lower case, of a registered command resolves to
\* the table entry of that command, the one its lower-case name resolves
\* to; a name that is no spelling of a registered command resolves to
\* nothing.
C13_CaseInsensitive ==
    \A i \in Calls :
        calls[i].pc # "idle" =>
            /\ \A idx \in DOMAIN Spellings :
                  calls[i].cmd_args[1] \in Spellings[idx] =>
                      /\ calls[i].cmd_info = idx
                      /\ command_table[calls[i].cmd_info].name = MethodOrder[idx]
                      /\ <<MethodOrder[idx], calls[i].cmd_info>>
                             \in command_name_to_info_map_
            /\ (\A idx \in DOMAIN Spellings :
                   calls[i].cmd_args[1] \notin Spellings[idx]) =>
                      calls[i].cmd_info = nullptr

\* GETRANGE in mixed case resolved to the entry of getrange, and, next to
\* it in the same specification, an internal key resolved to nothing.
C13_Witness ==
    \E i \in Calls :
        /\ calls[i].cmd_args = << <<"G","e","T","r","A","n","G","E">>, <<"k">> >>
        /\ calls[i].cmd_info = 5
        /\ command_table[5].name = kGetRange

\* The names the service declares, in the order of their table entries.
DeclaredCommands ==
    << kGet, kHGet, kStrLen, kExists, kGetRange, kSet, kHSet, kGetSet,
       kAppend, kDel, kSetRange, kIncr, kEcho >>

\* The table differs from the declaration in size or in a name.
TableMismatch ==
    \/ Len(command_table) # Len(DeclaredCommands)
    \/ \E idx \in 1..Len(DeclaredCommands) :
          idx <= Len(command_table) /\ command_table[idx].name # DeclaredCommands[idx]

\* C14: construction of the registry is fail-fast: over a table whose size
\* is not the declared count, or which carries another name than the
\* expected one at some index, construction aborts and no command is ever
\* dispatched; over any other table the registry maps exactly the 13
\* declared commands, each to the table entry at its own index.
C14_FailFastRegistry ==
    IF TableMismatch
    THEN /\ fatal
         /\ \A i \in Calls : calls[i] = NewCall
    ELSE /\ Len(DeclaredCommands) = 13
         /\ command_name_to_info_map_ =
               { <<DeclaredCommands[idx], idx>> : idx \in 1..13 }
         /\ \A e \in command_name_to_info_map_ : command_table[e[2]].name = e[1]
         /\ \A i \in Calls :
               calls[i].pc # "idle" /\ calls[i].cmd_info # nullptr =>
                   <<ToLowerCase(calls[i].cmd_args[1]), calls[i].cmd_info>>
                       \in command_name_to_info_map_

\* A table of the right size with a wrong name in it: the process is gone
\* before any call.
C14_Witness ==
    /\ Len(command_table) = 13
    /\ command_table[13].name # kEcho
    /\ fatal

\* The completion of the call's write has run with a non-OK status.
FlushFailed(call) ==
    /\ call.cb = "deleted"
    /\ call.handler # "none"
    /\ HandlerBinding(call.handler).pipeline = "write"
    /\ call.cb_status.code # "OK"

\* C15: when the flush of a write completes with a non-OK status (a timeout
\* included) the completion first asks the session for its pending errors
\* and logs each of them, only then sends the failure; the single response
\* is a failure carrying exactly the status the backend gave, whatever the
\* pending errors, no success is sent, and every error object the session
\* returned is released by the time the callback ends.
C15_FailedFlush ==
    \A i \in Calls :
        FlushFailed(calls[i]) =>
            /\ calls[i].cb_trace =
                   <<"Increment", "GetPendingErrors">>
                   \o [k \in 1..calls[i].errors_returned |-> "LOG(WARNING)"]
                   \o <<"RespondFailure", "~ElementDeleter", "delete this">>
            /\ calls[i].errors_logged = calls[i].errors_returned
            /\ calls[i].responses =
                   << Response("failure", <<>>, calls[i].cb_status,
                               calls[i].cb_metrics) >>
            /\ calls[i].cb_status \in BackendStatuses
            /\ calls[i].errors_live = 0

\* SET k v whose flush timed out with one error pending in the session.
C15_Witness ==
    \E i \in Calls :
        /\ FlushFailed(calls[i])
        /\ calls[i].cmd_args = <<kSet, <<"k">>, <<"v">>>>
        /\ calls[i].cb_status.code = "TimedOut"
        /\ calls[i].errors_returned = 1

\* The mutex is held by a thread inside SetUpYBClient and by no other.
MutexHeldInSetUp ==
    yb_mutex_ # 0 =>
        /\ calls[yb_mutex_].pc \in {"setup_build", "setup_open"}
        /\ calls[yb_mutex_].setup_called

\* C16 as stated: the mutex is held only inside the initializer, and once
\* the flag is true no dispatch acquires it.
C16_Original ==
    /\ []MutexHeldInSetUp
    /\ [][yb_client_initialized_ => (yb_mutex_' = yb_mutex_ \/ yb_mutex_' = 0)]_vars

\* C16: only SetUpYBClient takes the mutex, Build and OpenTable run under
\* it with the flag unset, and a dispatch that loads the flag as true
\* neither calls SetUpYBClient nor touches the mutex.  A dispatch that
\* loaded the flag as false before it was set still acquires the mutex
\* afterwards, only to find the flag set: it releases the mutex in its
\* next step and builds nothing.
C16_MutexOnlyInSetUp ==
    /\ []MutexHeldInSetUp
    /\ [](\A i \in Calls :
            calls[i].pc = "setup_open" => yb_mutex_ = i /\ ~yb_client_initialized_)
    /\ [](yb_mutex_ # 0 /\ yb_client_initialized_ =>
            calls[yb_mutex_].pc = "setup_build" /\ ~calls[yb_mutex_].built)
    /\ [][\A i \in Calls :
            /\ (yb_client_initialized_ /\ calls[i].pc = "idle" /\ calls'[i].pc # "idle") =>
                  /\ ~calls'[i].setup_called
                  /\ calls'[i].pc \notin {"setup_lock", "setup_build", "setup_open"}
                  /\ yb_mutex_' = yb_mutex_
            /\ (yb_mutex_' = i /\ yb_mutex_ # i) =>
                  calls[i].pc = "setup_lock" /\ calls[i].setup_called
            /\ (yb_client_initialized_ /\ yb_mutex_ = i /\ calls'[i] # calls[i]) =>
                  /\ yb_mutex_' = 0
                  /\ ~calls'[i].built
                  /\ client_' = client_ /\ table_' = table_]_vars

\* A thread that loaded the flag as false holds the mutex after another
\* thread has set the flag.
C16_Witness ==
    /\ yb_client_initialized_
    /\ yb_mutex_ # 0
    /\ calls[yb_mutex_].pc = "setup_build"

\* The parser the call's pipeline ran: the element of the trace after the
\* allocation of the operation.
ParserOf(call) ==
    call.trace[1 + CHOOSE k \in 1..Len(call.trace) :
                     call.trace[k] \in {"NewRedisRead", "NewRedisWrite"}]

\* C17: every read and write handler hands the pipeline a parser and a
\* metrics key of its own: the metric the completion object retains, and
\* under which the completed command is recorded, is the one registered
\* under the name of the command that was dispatched, and two different
\* commands never run the same parser.
C17_OwnParserAndMetric ==
    /\ \A i \in Calls :
          calls[i].cb # "none" =>
              /\ calls[i].cb_metrics = command_table[calls[i].cmd_info].name
              /\ calls[i].cb = "deleted" =>
                    \A k \in 1..Len(calls[i].responses) :
                        calls[i].responses[k].metrics =
                            command_table[calls[i].cmd_info].name
    /\ \A i, j \in Calls :
          (calls[i].cb # "none" /\ calls[j].cb # "none"
             /\ calls[i].cmd_info # calls[j].cmd_info) =>
                 ParserOf(calls[i]) # ParserOf(calls[j])

\* The sessions the call's pipeline created.
SessionsCreated(call) ==
    { k \in 1..Len(call.trace) : call.trace[k] \in {"NewSession(true)", "NewSession()"} }

Places(call, events) == { k \in 1..Len(call.trace) : call.trace[k] \in events }

\* Every event of the first kind comes before every event of the second.
Before(call, first, second) ==
    \A a \in Places(call, first), b \in Places(call, second) : a < b

\* C19: the read pipeline opens a read-only session and the write pipeline
\* a read-write one; in both the session has the configured timeout and
\* the manual flush mode, each set once, after the session was opened and
\* before the parser runs and before any operation is applied, submitted
\* or flushed on it.
C19_SessionConfigured ==
    \A i \in Calls :
        calls[i].session # 0 =>
            LET call     == calls[i]
                pipeline == HandlerBinding(call.handler).pipeline
                parser   == { HandlerBinding(call.handler).parse }
                config   == {"SetTimeoutMillis", "SetFlushMode"}
                used     == {"NewRedisRead", "NewRedisWrite", "Apply", "ReadAsync",
                             "FlushAsync", "GetPendingErrors"}
            IN  /\ pipeline = "read" =>
                      call.session_read_only /\ call.trace[1] = "NewSession(true)"
                /\ pipeline = "write" =>
                      ~call.session_read_only /\ call.trace[1] = "NewSession()"
                /\ call.session_timeout_millis =
                      FLAGS_redis_service_yb_client_timeout_millis
                /\ call.session_flush_mode = "MANUAL_FLUSH"
                /\ Cardinality(Places(call, {"SetTimeoutMillis"})) = 1
                /\ Cardinality(Places(call, {"SetFlushMode"})) = 1
                /\ Cardinality(Places(call, parser)) = 1
                /\ Before(call, {"NewSession(true)", "NewSession()"}, config)
                /\ Before(call, config, parser)
                /\ Before(call, config, used)

\* A read submitted on its read-only session and a write flushed on its
\* read-write session.
C19_Witness ==
    \E i, j \in Calls :
        /\ calls[i].session # 0 /\ calls[i].session_read_only
        /\ Places(calls[i], {"ReadAsync"}) # {}
        /\ calls[j].session # 0 /\ ~calls[j].session_read_only
        /\ Places(calls[j], {"Apply"}) # {} /\ Places(calls[j], {"FlushAsync"}) # {}

\* The completion of the call has run with the status OK.
CompletedOK(call) == call.cb = "deleted" /\ call.cb_status.code = "OK"

\* C20: on the status OK the completion sends one success response whose
\* payload is the response the backend left in the operation, element for
\* element, for reads and for writes; what the backend returns for a read
\* is what the caller receives.
C20_PayloadUnaltered ==
    \A i \in Calls :
        CompletedOK(calls[i]) =>
            /\ calls[i].op_response \in BackendResponses
            /\ Len(calls[i].responses) = 1
            /\ calls[i].responses[1].kind = "success"
            /\ calls[i].responses[1].payload = calls[i].op_response
            /\ calls[i].responses[1].status = OK

\* A write answered with the backend's OK and a read answered with the
\* value the backend returned.
C20_Witness ==
    \E i, j \in Calls :
        /\ CompletedOK(calls[i])
        /\ HandlerBinding(calls[i].handler).pipeline = "write"
        /\ calls[i].responses[1].payload = <<"O","K">>
        /\ CompletedOK(calls[j])
        /\ HandlerBinding(calls[j].handler).pipeline = "read"
        /\ calls[j].responses[1].payload = <<"v","1">>

\* C21: each completion records exactly one sample in the internal
\* backend-latency metric, whatever the status: a read completion in
\* "get_internal", a write completion in "set_internal", never the other;
\* a call whose completion has not run, or which ended before submission
\* (initialization failure, unsupported, arity error, parse error, ECHO),
\* has recorded no sample in either.
C21_InternalSamples ==
    \A i \in Calls :
        IF calls[i].cb = "deleted"
        THEN LET pipeline == HandlerBinding(calls[i].handler).pipeline
             IN  /\ pipeline = "read"  => calls[i].samples = <<kGetInternal>>
                 /\ pipeline = "write" => calls[i].samples = <<kSetInternal>>
                 /\ pipeline \in {"read", "write"}
        ELSE calls[i].samples = <<>>

\* A read that failed in the backend and a write that succeeded, each with
\* its one sample.
C21_Witness ==
    \E i, j \in Calls :
        /\ calls[i].cb = "deleted" /\ calls[i].cb_status.code # "OK"
        /\ calls[i].samples = <<kGetInternal>>
        /\ calls[j].cb = "deleted" /\ calls[j].cb_status.code = "OK"
        /\ calls[j].samples = <<kSetInternal>>

\* The client and the table handle are in place.
HandlesSet == client_ = "redis_ybclient" /\ table_ = ".redis"

\* C22: the initialized flag never goes from true back to false; the step
\* that sets it is the return of a SetUpYBClient whose Build and OpenTable
\* have both succeeded; and a command handler (ECHO, a read or a write
\* pipeline) is invoked only with the flag true and both handles set,
\* under every interleaving of first requests and failed attempts.
C22_FlagMonotonic ==
    /\ [](yb_client_initialized_ => HandlesSet)
    /\ [](\A i \in Calls :
            calls[i].handler # "none" => yb_client_initialized_ /\ HandlesSet)
    /\ [][/\ yb_client_initialized_ => yb_client_initialized_'
          /\ (~yb_client_initialized_ /\ yb_client_initialized_') =>
                /\ yb_mutex_ # 0
                /\ calls[yb_mutex_].pc = "setup_open"
                /\ calls[yb_mutex_].built
                /\ client_ = "redis_ybclient"
                /\ table_' = ".redis"
                /\ calls'[yb_mutex_].status = OK
          /\ \A i \in Calls :
                (calls[i].handler = "none" /\ calls'[i].handler # "none") =>
                    /\ yb_client_initialized_'
                    /\ calls'[i].status = OK
                    /\ calls[i].setup_called \/ yb_client_initialized_]_vars

\* A handler invoked by a caller whose own first attempt came after
\* another caller's attempt had failed.
C22_Witness ==
    \E i, j \in Calls :
        /\ i # j
        /\ calls[i].status.code # "OK" /\ calls[i].pc = "done"
        /\ calls[j].handler # "none" /\ calls[j].built
        /\ yb_client_initialized_

\* The threads past the lock_guard of SetUpYBClient.
InsideLock == { i \in Calls : calls[i].pc \in {"setup_build", "setup_open"} }

\* C23: at most one thread is past the lock of SetUpYBClient at any time,
\* after failed attempts as well: a thread enters only when no other is
\* inside, and once an attempt has succeeded no thread runs Build or
\* OpenTable again and the client and the table handle stay as they are.
C23_OneThreadBuilds ==
    /\ [](Cardinality(InsideLock) <= 1)
    /\ [](InsideLock = IF yb_mutex_ = 0 THEN {} ELSE {yb_mutex_})
    /\ [][/\ \A i \in Calls :
                (i \notin InsideLock /\ calls'[i].pc \in {"setup_build", "setup_open"})
                    => InsideLock = {}
          /\ yb_client_initialized_ =>
                /\ client_' = client_
                /\ table_' = table_
                /\ \A i \in Calls :
                      /\ calls'[i].built = calls[i].built
                      /\ calls'[i].pc # "setup_open"]_vars

\* After one caller's attempt has failed, another caller is alone inside
\* the sequence, about to open the table.
C23_Witness ==
    \E i, j \in Calls :
        /\ Returned(i) /\ calls[i].built /\ calls[i].status.code # "OK"
        /\ InsideLock = {j}
        /\ calls[j].pc = "setup_open"

\* The last element of a non-empty sequence.
Last(seq) == seq[Len(seq)]

\* The accesses by which the dispatching thread gives the call away: to a
\* completion object or to a response context.
HandOffs == {"ReadCommandCb", "WriteCommandCb", "RpcContext"}

\* The owner of the call at each position of its handling.
OwnerAt(call) ==
    CASE call.pc = "idle" -> "transport"
      [] call.pc \in {"setup_lock", "setup_build", "setup_open"} -> "dispatcher"
      [] call.pc = "submitted" -> "callback"
      [] call.pc = "done" -> "context"

\* C24: the call has one owner at any time: the dispatching thread from
\* Handle on, then the completion object if the command is submitted, then
\* the response context, never back; the dispatching thread gives the call
\* away once, and that is its last access to the call and to the argument
\* vector, so whenever the completion runs and releases the call the
\* dispatching thread has nothing left to read.
C24_CallOwnership ==
    /\ [](\A i \in Calls :
            /\ calls[i].owner = OwnerAt(calls[i])
            /\ \A k \in 1..Len(calls[i].touched) :
                  calls[i].touched[k] \in HandOffs =>
                      /\ k = Len(calls[i].touched)
                      /\ calls[i].owner \in {"callback", "context"}
            /\ calls[i].owner = "callback" =>
                  /\ calls[i].cb = Last(calls[i].touched)
                  /\ calls[i].responses = <<>>
            /\ (calls[i].owner = "context" /\ calls[i].cb = "deleted") =>
                  /\ Last(calls[i].touched) \in {"ReadCommandCb", "WriteCommandCb"}
                  /\ Last(calls[i].cb_trace) = "delete this"
            /\ (calls[i].owner = "context" /\ calls[i].cb = "none") =>
                  Last(calls[i].touched) = "RpcContext")
    /\ [][\A i \in Calls :
            /\ calls'[i].owner # calls[i].owner =>
                  <<calls[i].owner, calls'[i].owner>> \in
                      { <<"transport", "dispatcher">>, <<"transport", "callback">>,
                        <<"transport", "context">>, <<"dispatcher", "callback">>,
                        <<"dispatcher", "context">>, <<"callback", "context">> }
            /\ calls[i].owner \in {"callback", "context"} =>
                  calls'[i].touched = calls[i].touched]_vars

\* A read whose completion has answered and released the call, the
\* dispatching thread having last touched the call when it made the
\* completion object.
C24_Witness ==
    \E i \in Calls :
        /\ calls[i].cb = "deleted"
        /\ calls[i].owner = "context"
        /\ Last(calls[i].touched) = "ReadCommandCb"
        /\ Len(calls[i].responses) = 1

\* C25: after construction no dispatch and no completion changes the
\* command map or the metrics map: every key looked up in metrics_ on the
\* request path (the name each handler passes, "echo", "error",
\* "get_internal", "set_internal") is a key construction registered, so
\* the inserting lookups add nothing.
C25_MapsImmutable ==
    /\ [][/\ metrics_' = metrics_
          /\ command_name_to_info_map_' = command_name_to_info_map_
          /\ command_table' = command_table]_vars
    /\ [](\A i \in Calls : MetricsLookedUp(calls[i]) \subseteq metrics_)

\* One call answered under "error", another submitted under its own name
\* and "set_internal": the lookups of both found their keys.
C25_Witness ==
    \E i, j \in Calls :
        /\ MetricsLookedUp(calls[i]) = {kError}
        /\ MetricsLookedUp(calls[j]) = {kSet, kSetInternal}

\* The call names one of the internal metrics keys, in some spelling.
NamesInternalKey(call) ==
    call.pc # "idle" /\ call.cmd_args[1] \in InternalKeySpellings

\* C26 as stated: a command named "error", "get_internal" or
\* "set_internal", in any casing, is answered "Unsupported call.".
C26_Original ==
    \A i \in Calls :
        (NamesInternalKey(calls[i]) /\ Handled(calls[i])) =>
            FailureSent(calls[i], "Unsupported call.")

\* C26 amended: the three internal keys are keys of the metrics map and of
\* no entry of the command map; a command so named, in any casing,
\* resolves to nothing, never reaches a handler, and is answered
\* "Unsupported call." once the client check has succeeded, and with the
\* initialization failure when it has not.
C26_InternalKeysNotCommands ==
    /\ ~fatal =>
          /\ {kError, kGetInternal, kSetInternal} \subseteq metrics_
          /\ \A e \in command_name_to_info_map_ :
                e[1] \notin {kError, kGetInternal, kSetInternal}
    /\ \A i \in Calls :
          NamesInternalKey(calls[i]) =>
              /\ calls[i].cmd_info = nullptr
              /\ calls[i].handler = "none"
              /\ calls[i].trace = <<>>
              /\ calls[i].cb = "none"
              /\ Handled(calls[i]) =>
                    IF calls[i].status.code = "OK"
                    THEN FailureSent(calls[i], "Unsupported call.")
                    ELSE InitFailureSent(calls[i])

\* "GeT_InTeRnAl k" answered "Unsupported call." by a service that has its
\* client.
C26_Witness ==
    \E i \in Calls :
        /\ calls[i].cmd_args =
              << <<"G","e","T","_","I","n","T","e","R","n","A","l">>, <<"k">> >>
        /\ FailureSent(calls[i], "Unsupported call.")
        /\ yb_client_initialized_
====
